---- MODULE Spec2Model ----
(***************************************************************************)
(* Model of the expense tracker of src/main.py: the "expenses" table, the  *)
(* five request handlers that read and write it, and the budget figures    *)
(* get_dashboard derives from it.                                          *)
(*                                                                         *)
(* Numbers.  amount is a Float column and every figure of get_dashboard    *)
(* is a Python float (an IEEE double).  A float is modelled by the value   *)
(* it holds: a sign and the set of the exponents k of the powers 2^k that  *)
(* add up to its magnitude, at most 53 consecutive binary places.  Sums,   *)
(* differences and quotients are computed exactly on these sets and then   *)
(* rounded to the nearest double, ties to even, as the hardware does.      *)
(* round(x, 2) is the correctly rounded number of hundredths that Python's *)
(* round returns for the value held.  sum() adds floats as the interpreter *)
(* that serves the request does: one after the other up to CPython 3.11,   *)
(* with a compensation term from CPython 3.12 on.                          *)
(*                                                                         *)
(* Dates are proleptic ordinals (date.toordinal()).                        *)
(***************************************************************************)
EXTENDS Integers, Sequences, FiniteSets, Bags, TLC

VARIABLES
    backend,    \* dialect of DATABASE_URL: "sqlite" or "postgresql"
    rows,       \* committed content of table "expenses": a set of rows
    seq,        \* last value of the id sequence (postgresql only)
    today,      \* date.today(), as an ordinal; fixed while the requests run
    last,       \* the request handled last and its response
    prev,       \* the request handled before it and its response
    procs,      \* concurrent requests: one session per request
    lock,       \* holder of the sqlite write lock, 0 when free
    rows0       \* the table when the concurrent requests arrived

vars == <<backend, rows, seq, today, last, prev, procs, lock, rows0>>

----------------------------------------------------------------------------
(* Bounds of the model *)

MaxRows == 2
MaxSeq == 3
MaxDays == 1
HistRows == 11
NProcs == 3

----------------------------------------------------------------------------
(* Constants of the program *)

TOTAL_START_BUDGET == 47300
\* date(2026, 2, 10).toordinal()
END_DATE == 739657
\* get_history(limit: int = 10)
DefaultLimit == 10
\* read_item: get_history(limit=10, db=db)
IndexLimit == 10

Backends == {"sqlite", "postgresql"}

(* The interpreter that serves a request: CPython up to 3.11, whose sum()   *)
(* adds floats one after the other, or CPython from 3.12 on, whose sum()   *)
(* carries a compensation term.  The table outlives the process, so the    *)
(* requests of one run need not be served by the same interpreter.         *)
Interpreters == {"3.11", "3.12"}

Limits == {-1, 0, 1, 2}

(* limits and ids asked for once the table holds more than DefaultLimit rows *)
HistLimits == {-1, 0, DefaultLimit + 1}
HistIds == {1, DefaultLimit + 1}

(* the day on which the service runs, MaxDays before END_DATE; DashDays    *)
(* below spans the weeks before END_DATE and the day after                 *)
Today == END_DATE - MaxDays

----------------------------------------------------------------------------
(* The table *)

Ids(rs) == { r.id : r \in rs }

RowOf(rs, i) == CHOOSE r \in rs : r.id = i

MaxOf(S) == CHOOSE m \in S : \A x \in S : x <= m

(* The id the database gives the next INSERT.  sqlite: id is an INTEGER    *)
(* PRIMARY KEY without AUTOINCREMENT, an alias of the rowid, and gets      *)
(* max(rowid) + 1.  postgresql: id is SERIAL and gets nextval of its       *)
(* sequence.                                                               *)
NextId(be, rs, sq) ==
    IF be = "sqlite"
    THEN (IF rs = {} THEN 1 ELSE MaxOf(Ids(rs)) + 1)
    ELSE sq + 1

NextSeq(be, sq) == IF be = "sqlite" THEN sq ELSE sq + 1

(* Expense(amount=..., description=...); created_at defaults to date.today *)
Expense(i, amount, description, day) ==
    [id |-> i, amount |-> amount, description |-> description, created_at |-> day]

(* db.add(db_expense); db.commit() *)
Insert(be, rs, sq, amount, description, day) ==
    rs \cup { Expense(NextId(be, rs, sq), amount, description, day) }

(* db.query(Expense).filter(Expense.id == expense_id).first() *)
First(rs, expense_id) == { r \in rs : r.id = expense_id }

(* a slip: the filter compares with <= *)
DeleteUpTo(rs, expense_id) == { r \in rs : r.id > expense_id }

(* if expense: db.delete(expense); db.commit() *)
Delete(rs, expense_id) ==
    IF First(rs, expense_id) # {} THEN rs \ First(rs, expense_id) ELSE rs

----------------------------------------------------------------------------
(* Float arithmetic *)

(* significant bits of a double *)
Mantissa == 53

(* Magnitudes are finite sets of exponents: A stands for the sum of 2^k    *)
(* over k in A.                                                            *)
Shift(A, n) == { k + n : k \in A }

(* A + B, exactly: the places set in one only, plus the carries *)
RECURSIVE Add(_, _)
Add(A, B) ==
    IF B = {} THEN A
    ELSE Add((A \cup B) \ (A \cap B), Shift(A \cap B, 1))

(* the highest and the lowest place of A *)
Top(A) == -(CHOOSE m \in { -k : k \in A } : \A j \in A : j <= -m)
Bottom(A) == CHOOSE m \in A : \A j \in A : m <= j

(* A - B for A >= B, exactly.  The places set in both cancel.  What is     *)
(* left of B is borrowed from the lowest place q that A has above it:      *)
(* 2^q less that much is its complement below q, plus one in its last      *)
(* place; the places of A below q are added to it.                         *)
Sub(A, B) ==
    LET P == A \ B
        Q == B \ A
    IN  IF Q = {} THEN P
        ELSE LET top == Top(Q)
                 above == { k \in P : k > top }
                 q == Bottom(above)
                 low == Bottom(Q)
                 borrowed == ((low..(q - 1)) \ Q) \cup {low}
             IN  (above \ {q}) \cup Add(borrowed, P \ above)

(* A < B *)
Less(A, B) ==
    LET D == (A \cup B) \ (A \cap B)
    IN  D # {} /\ Top(D) \in B

(* A rounded to Mantissa significant bits, to nearest, ties to even *)
Round53(A) ==
    IF A = {} THEN {}
    ELSE LET top == Top(A)
             keep == A \cap ((top - Mantissa + 1)..top)
             rest == A \ keep
             half == top - Mantissa
             unit == top - Mantissa + 1
             up == half \in rest /\ (rest # {half} \/ unit \in keep)
         IN  IF up THEN Add(keep, {unit}) ELSE keep

(* A number: its sign and magnitude, or the exception raised in its place *)
Number(neg, bits) == [raised |-> "", neg |-> neg /\ bits # {}, bits |-> bits]

Zero == Number(FALSE, {})

Neg(x) == Number(~x.neg, x.bits)

(* x + y, exactly *)
Plus(x, y) ==
    IF x.neg = y.neg THEN Number(x.neg, Add(x.bits, y.bits))
    ELSE IF Less(x.bits, y.bits) THEN Number(y.neg, Sub(y.bits, x.bits))
    ELSE Number(x.neg, Sub(x.bits, y.bits))

(* float.__add__, float.__sub__: the exact result rounded to a double *)
FloatAdd(x, y) == LET z == Plus(x, y) IN Number(z.neg, Round53(z.bits))
FloatSub(x, y) == FloatAdd(x, Neg(y))

(* Numbers are divided and multiplied a digit of Radix binary places at a  *)
(* time.                                                                   *)
Radix == 15

(* the digit of A at the places lo .. lo + Radix - 1, a natural number *)
Digit(A, lo) ==
    BagCardinality([k \in A \cap (lo..(lo + Radix - 1)) |-> 2^(k - lo)])

(* the places of the digit n < 2^Radix, times 2^lo *)
DigitPlaces(n, lo) ==
    { lo + i : i \in { j \in 0..(Radix - 1) : (n \div 2^j) % 2 = 1 } }

(* the places of the natural number n < 2^(2 * Radix), times 2^lo *)
Places(n, lo) == DigitPlaces(n % 2^Radix, lo) \cup DigitPlaces(n \div 2^Radix, lo + Radix)

(* the binary places of the natural number n, times 2^k *)
IntBits(n, k) == Places(n % 2^(2 * Radix), k) \cup Places(n \div 2^(2 * Radix), k + 2 * Radix)

(* digits of a quotient worked out before rounding: more than Mantissa     *)
(* places whatever the divisor below 2^Radix                               *)
QuotientDigits == 5

(* Long division of the double A by the positive integer k < 2^Radix, the  *)
(* digit at lo next, rem < k the remainder so far, n digits to go.  A      *)
(* remainder left over in the end is recorded as one place below.          *)
RECURSIVE LongDiv(_, _, _, _, _)
LongDiv(A, k, lo, rem, n) ==
    LET cur == rem * 2^Radix + Digit(A, lo)
    IN  IF n = 0
        THEN (IF rem # 0 THEN {lo} ELSE {})
        ELSE DigitPlaces(cur \div k, lo) \cup LongDiv(A, k, lo - Radix, cur % k, n - 1)

(* the double nearest A / k *)
Quotient(A, k) ==
    IF A = {} THEN {}
    ELSE Round53(LongDiv(A, k, Top(A) - Radix + 1, 0, QuotientDigits))

(* float("n/d"): the double a decimal literal of value n / d is read as *)
FloatOf(n, d) == Number(n < 0, Quotient(IntBits(IF n < 0 THEN -n ELSE n, 0), d))

(* float.__truediv__ by an int: x / k *)
TrueDiv(x, k) ==
    IF k = 0 THEN [Zero EXCEPT !.raised = "ZeroDivisionError"]
    ELSE IF k > 0 THEN Number(x.neg, Quotient(x.bits, k))
    ELSE Number(~x.neg, Quotient(x.bits, -k))

ZeroDivisionError(x) == x.raised = "ZeroDivisionError"

(* 100 times the part of A below 2^0, from the digit at lo up: the integer *)
(* part, the next Radix places, and whether anything is left below them    *)
RECURSIVE Hundredfold(_, _, _, _)
Hundredfold(A, lo, carry, left) ==
    LET v == 100 * Digit(A, lo) + carry
    IN  IF lo + Radix = 0
        THEN <<v \div 2^Radix, v % 2^Radix, left>>
        ELSE Hundredfold(A, lo + Radix, v \div 2^Radix, left \/ v % 2^Radix # 0)

(* round(x, 2), in hundredths: the integer nearest 100 * x, ties to even *)
Round2(x) ==
    LET whole == 100 * Digit(x.bits, 0) + 100 * 2^Radix * Digit(x.bits, Radix)
        low == IF x.bits = {} THEN 0 ELSE Bottom(x.bits)
        h == Hundredfold(x.bits, IF low < 0 THEN Radix * (low \div Radix) ELSE -Radix,
                         0, FALSE)
        n == whole + h[1]
        half == 2^(Radix - 1)
        up == h[2] > half \/ (h[2] = half /\ (h[3] \/ n % 2 = 1))
    IN  IF x.neg THEN -(n + (IF up THEN 1 ELSE 0)) ELSE n + (IF up THEN 1 ELSE 0)

----------------------------------------------------------------------------
(* Requests a client sends *)

(* (amount, description) pairs: -1.0, 0.1 and 50000.375 *)
Inputs ==
    { [amount |-> FloatOf(-1, 1),     description |-> "food"],
      [amount |-> FloatOf(1, 10),     description |-> " "],
      [amount |-> FloatOf(400003, 8), description |-> "food"] }

HistInput == [amount |-> FloatOf(1, 10), description |-> "food"]

----------------------------------------------------------------------------
(* get_dashboard *)

MinOf(S) == CHOOSE m \in S : \A x \in S : m <= x

(* sum(e.amount for e in all_expenses) takes the rows in the order the     *)
(* SELECT without ORDER BY returns them, that of the ids, and starts from  *)
(* the int 0, to which the first amount adds exactly.  How the floats are  *)
(* added is the interpreter's business.                                    *)

(* CPython up to 3.11: f_result += x, float additions from the left *)
RECURSIVE SumAmounts(_, _)
SumAmounts(acc, rs) ==
    IF rs = {} THEN acc
    ELSE LET r == RowOf(rs, MinOf(Ids(rs)))
         IN  SumAmounts(FloatAdd(acc, r.amount), rs \ {r})

(* CPython from 3.12 on: t = f + x; c += (f - t) + x when |f| >= |x|, else *)
(* c += (x - t) + f; f = t; in the end f + c unless c is zero              *)
RECURSIVE SumCompensated(_, _, _)
SumCompensated(f, c, rs) ==
    IF rs = {} THEN (IF c.bits # {} THEN FloatAdd(f, c) ELSE f)
    ELSE LET r == RowOf(rs, MinOf(Ids(rs)))
             x == r.amount
             t == FloatAdd(f, x)
             lost == IF Less(f.bits, x.bits)
                     THEN FloatAdd(FloatSub(x, t), f)
                     ELSE FloatAdd(FloatSub(f, t), x)
         IN  SumCompensated(t, FloatAdd(c, lost), rs \ {r})

(* sum() of the amounts of rs on the interpreter version: the loop over   *)
(* floats starts once the first amount has been added to the int 0         *)
sum(version, rs) ==
    IF rs = {} THEN Zero
    ELSE LET r == RowOf(rs, MinOf(Ids(rs)))
         IN  IF version = "3.11"
             THEN SumAmounts(r.amount, rs \ {r})
             ELSE SumCompensated(r.amount, Zero, rs \ {r})

(* total_spent = sum(e.amount for e in all_expenses) *)
total_spent(version, rs) == sum(version, rs)

(* the values total_spent can take for the table rs *)
Totals(rs) == { total_spent(version, rs) : version \in Interpreters }

(* TOTAL_START_BUDGET = 47300.0, as the float it is *)
StartBudget == FloatOf(TOTAL_START_BUDGET, 1)

(* a slip: the operands of the subtraction swapped *)
remaining_budget_swapped(spent) == FloatSub(spent, StartBudget)

(* TOTAL_START_BUDGET - total_spent *)
remaining_budget(spent) == FloatSub(StartBudget, spent)

days_left(day) == END_DATE - day

(* a slip: the guard lets days_left = 0 through to the division *)
daily_limit_ge(remaining, days) ==
    IF days >= 0 THEN TrueDiv(remaining, days) ELSE remaining

(* remaining_budget / days_left if days_left > 0 else remaining_budget *)
daily_limit(remaining, days) ==
    IF days > 0 THEN TrueDiv(remaining, days) ELSE remaining

(* the locals of get_dashboard at full precision, for the value spent that *)
(* sum() returned                                                          *)
Locals(spent, day) ==
    LET remaining == remaining_budget(spent)
    IN  [ total_spent      |-> spent,
          remaining_budget |-> remaining,
          days_left        |-> days_left(day),
          daily_limit      |-> daily_limit(remaining, days_left(day)) ]

(* the dict get_dashboard returns for its locals e; money in hundredths *)
Returned(e, day) ==
    [ remaining_total_rsd |-> Round2(e.remaining_budget),
      days_left           |-> e.days_left,
      daily_limit_rsd     |-> Round2(e.daily_limit),
      total_spent         |-> Round2(e.total_spent),
      today               |-> day ]

(* the locals of get_dashboard on the interpreter version *)
Engine(version, rs, day) == Locals(total_spent(version, rs), day)

Dashboard(version, rs, day) == Returned(Engine(version, rs, day), day)

----------------------------------------------------------------------------
(* get_history *)

(* a slip: ascending order *)
RECURSIVE OrderByIdAsc(_)
OrderByIdAsc(rs) ==
    IF rs = {} THEN <<>>
    ELSE LET r == RowOf(rs, MaxOf(Ids(rs)))
         IN  OrderByIdAsc(rs \ {r}) \o <<r>>

(* .order_by(Expense.id.desc()) *)
RECURSIVE OrderByIdDesc(_)
OrderByIdDesc(rs) ==
    IF rs = {} THEN <<>>
    ELSE LET r == RowOf(rs, MaxOf(Ids(rs)))
         IN  <<r>> \o OrderByIdDesc(rs \ {r})

(* .limit(limit).all(): LIMIT n.  A negative n means no limit to sqlite    *)
(* and is rejected by postgresql ("LIMIT must not be negative"), which     *)
(* the session raises as DataError.                                        *)
DataError(be, n) == be = "postgresql" /\ n < 0

(* a slip: a limit of zero taken for no limit *)
LimitRowsOrAll(be, s, n) ==
    IF n <= 0
    THEN (IF be = "sqlite" \/ n = 0 THEN s ELSE <<>>)
    ELSE IF n >= Len(s) THEN s ELSE SubSeq(s, 1, n)

LimitRows(be, s, n) ==
    IF n < 0
    THEN (IF be = "sqlite" THEN s ELSE <<>>)
    ELSE IF n >= Len(s) THEN s ELSE SubSeq(s, 1, n)

History(be, rs, limit) == LimitRows(be, OrderByIdDesc(rs), limit)

----------------------------------------------------------------------------
(* Requests and responses *)

(* No request handled yet.  Every request record has these fields; a       *)
(* handler fills in its own.                                               *)
NoCall ==
    [ op          |-> "none",
      amount      |-> Zero,    \* request: amount
      description |-> "",      \* request: description
      expense_id  |-> 0,       \* request: expense_id
      limit       |-> 0,       \* request: limit, when given
      limit_given |-> FALSE,
      status      |-> 0,       \* response: HTTP status code
      location    |-> "",      \* response: target of the redirect
      saved       |-> <<>>,    \* response of /spend: the expense, echoed
      snapshot    |-> <<>>,    \* response of /dashboard: the dict
      engine      |-> <<>>,    \* locals of get_dashboard
      history     |-> <<>>,    \* response of /history: "history"
      count       |-> 0,       \* response of /history: "count"
      new_id      |-> 0,       \* id of the row the request inserted
      found       |-> FALSE,   \* the delete's look-up returned a row
      before      |-> {} ]     \* the table when the request arrived

(* what is kept of a request once the next one has been handled *)
Brief(call) ==
    [ op         |-> call.op,
      expense_id |-> call.expense_id,
      new_id     |-> call.new_id,
      found      |-> call.found,
      status     |-> call.status,
      location   |-> call.location,
      before     |-> call.before ]

NoProc == [ pc |-> "idle", op |-> "none", amount |-> Zero, description |-> "",
            expense_id |-> 0, found |-> FALSE, new_id |-> 0, rowcount |-> 0,
            status |-> 0, snapshot |-> <<>>, history |-> <<>> ]

Idle == procs = [p \in 1..NProcs |-> NoProc] /\ lock = 0 /\ rows0 = {}

Sequential == UNCHANGED <<backend, procs, lock, rows0>>

(* room for one more row within the bounds of the model *)
Room(n) ==
    /\ Cardinality(rows) < n
    /\ backend = "postgresql" => seq < MaxSeq + (n - MaxRows)

(* RedirectResponse(url="/", status_code=303) *)
RedirectStatus == 303
RedirectUrl == "/"

(* status of the response of ui_delete_expense for a look-up result *)
DeleteStatus(rs, expense_id) == RedirectStatus

----------------------------------------------------------------------------
(* The handlers, one request at a time *)

(* POST /spend *)
add_expense(expense) ==
    /\ rows' = Insert(backend, rows, seq, expense.amount, expense.description, today)
    /\ seq' = NextSeq(backend, seq)
    /\ last' = [NoCall EXCEPT !.op = "add_expense",
                              !.amount = expense.amount,
                              !.description = expense.description,
                              !.status = 200,
                              !.saved = <<expense>>,
                              !.new_id = NextId(backend, rows, seq),
                              !.before = rows]
    /\ prev' = Brief(last)
    /\ UNCHANGED today
    /\ Sequential

(* POST /ui/add *)
ui_add_expense(amount, description) ==
    /\ rows' = Insert(backend, rows, seq, amount, description, today)
    /\ seq' = NextSeq(backend, seq)
    /\ last' = [NoCall EXCEPT !.op = "ui_add_expense",
                              !.amount = amount,
                              !.description = description,
                              !.status = RedirectStatus,
                              !.location = RedirectUrl,
                              !.new_id = NextId(backend, rows, seq),
                              !.before = rows]
    /\ prev' = Brief(last)
    /\ UNCHANGED today
    /\ Sequential

(* POST /ui/delete/{expense_id} *)
ui_delete_expense(expense_id) ==
    /\ rows' = Delete(rows, expense_id)
    /\ last' = [NoCall EXCEPT !.op = "ui_delete_expense",
                              !.expense_id = expense_id,
                              !.status = DeleteStatus(rows, expense_id),
                              !.location = RedirectUrl,
                              !.found = First(rows, expense_id) # {},
                              !.before = rows]
    /\ prev' = Brief(last)
    /\ UNCHANGED <<seq, today>>
    /\ Sequential

(* GET /dashboard *)
get_dashboard ==
    /\ \E spent \in Totals(rows) :
         last' = LET e == Locals(spent, today)
                 IN  IF ZeroDivisionError(e.daily_limit)
                     THEN [NoCall EXCEPT !.op = "get_dashboard",
                                         !.status = 500,
                                         !.before = rows]
                     ELSE [NoCall EXCEPT !.op = "get_dashboard",
                                         !.status = 200,
                                         !.snapshot = <<Returned(e, today)>>,
                                         !.engine = <<e>>,
                                         !.before = rows]
    /\ prev' = Brief(last)
    /\ UNCHANGED <<rows, seq, today>>
    /\ Sequential

(* GET /history, limit: int = 10 *)
get_history(given, limit) ==
    LET n == IF given THEN limit ELSE DefaultLimit
    IN  /\ last' = IF DataError(backend, n)
                   THEN [NoCall EXCEPT !.op = "get_history",
                                       !.limit = limit,
                                       !.limit_given = given,
                                       !.status = 500,
                                       !.before = rows]
                   ELSE [NoCall EXCEPT !.op = "get_history",
                                       !.limit = limit,
                                       !.limit_given = given,
                                       !.status = 200,
                                       !.history = History(backend, rows, n),
                                       !.count = Len(History(backend, rows, n)),
                                       !.before = rows]
        /\ prev' = Brief(last)
        /\ UNCHANGED <<rows, seq, today>>
        /\ Sequential

(* GET /: get_dashboard(db), get_history(limit=10, db=db) and the template *)
(* (templates/index.html is not part of src/; the page is taken to render).*)
(* Handled alone, no other request commits between its two SELECTs, so     *)
(* both read the same table; IndexStatus and IndexHistory below are the    *)
(* two SELECTs of a request handled among others.                          *)
read_item ==
    /\ \E spent \in Totals(rows) :
         last' = LET e == Locals(spent, today)
                 IN  IF ZeroDivisionError(e.daily_limit)
                     THEN [NoCall EXCEPT !.op = "read_item",
                                         !.status = 500,
                                         !.before = rows]
                     ELSE [NoCall EXCEPT !.op = "read_item",
                                         !.status = 200,
                                         !.snapshot = <<Returned(e, today)>>,
                                         !.engine = <<e>>,
                                         !.history = History(backend, rows, IndexLimit),
                                         !.before = rows]
    /\ prev' = Brief(last)
    /\ UNCHANGED <<rows, seq, today>>
    /\ Sequential

----------------------------------------------------------------------------
(* The service, one request at a time *)

Init ==
    /\ backend \in Backends
    /\ rows = {}
    /\ seq = 0
    /\ today = Today
    /\ last = NoCall
    /\ prev = Brief(NoCall)
    /\ Idle

Spend == \E e \in Inputs : Room(MaxRows) /\ add_expense(e)
UiAdd == \E e \in Inputs : Room(MaxRows) /\ ui_add_expense(e.amount, e.description)
UiDelete == \E i \in 1..(MaxRows + 1) : ui_delete_expense(i)
GetDashboard == get_dashboard
GetHistory == get_history(FALSE, 0) \/ \E n \in Limits : get_history(TRUE, n)
ReadItem == read_item

Next ==
    \/ Spend
    \/ UiAdd
    \/ UiDelete
    \/ GetDashboard
    \/ GetHistory
    \/ ReadItem

Spec == Init /\ [][Next]_vars

----------------------------------------------------------------------------
(* The service with a table of more than DefaultLimit rows *)

InitHist ==
    /\ backend \in Backends
    /\ rows = {}
    /\ seq = 0
    /\ today = Today
    /\ last = NoCall
    /\ prev = Brief(NoCall)
    /\ Idle

HistAdd == Room(HistRows) /\ ui_add_expense(HistInput.amount, HistInput.description)
HistDelete == \E i \in HistIds : ui_delete_expense(i)
HistGet == get_history(FALSE, 0) \/ \E n \in HistLimits : get_history(TRUE, n)
HistIndex == read_item

NextHist ==
    \/ HistAdd
    \/ HistDelete
    \/ HistGet
    \/ HistIndex

SpecHist == InitHist /\ [][NextHist]_vars

----------------------------------------------------------------------------
(* The service over the weeks before END_DATE, with a small table *)

MaxDashDays == 25
MaxDashRows == 1

DashDays == (END_DATE - MaxDashDays)..(END_DATE + 1)

(* 0.1, 47299.875 and 50000.375 *)
DashInputs ==
    { [amount |-> FloatOf(1, 10), description |-> "food"],
      [amount |-> FloatOf(TOTAL_START_BUDGET * 8 - 1, 8), description |-> "food"],
      [amount |-> FloatOf(400003, 8), description |-> "food"] }

InitDash ==
    /\ backend \in Backends
    /\ rows = {}
    /\ seq = 0
    /\ today \in DashDays
    /\ last = NoCall
    /\ prev = Brief(NoCall)
    /\ Idle

DashAdd == \E e \in DashInputs : Room(MaxDashRows) /\ add_expense(e)
DashDelete == \E i \in 1..(MaxDashRows + 1) : ui_delete_expense(i)
DashGet == get_dashboard
DashIndex == read_item

NextDash ==
    \/ DashAdd
    \/ DashDelete
    \/ DashGet
    \/ DashIndex

SpecDash == InitDash /\ [][NextDash]_vars

----------------------------------------------------------------------------
(* The service with a table of more than two rows, for the order in which  *)
(* get_dashboard adds the amounts up; on the backend of the default        *)
(* DATABASE_URL                                                            *)

MaxSumRows == 3

(* 0.1, 0.2 and 50000.375 *)
SumInputs ==
    { [amount |-> FloatOf(1, 10), description |-> "food"],
      [amount |-> FloatOf(2, 10), description |-> "food"],
      [amount |-> FloatOf(400003, 8), description |-> "food"] }

InitSum ==
    /\ backend = "sqlite"
    /\ rows = {}
    /\ seq = 0
    /\ today = Today
    /\ last = NoCall
    /\ prev = Brief(NoCall)
    /\ Idle

SumAdd == \E e \in SumInputs : Room(MaxSumRows) /\ add_expense(e)
SumDelete == \E i \in 1..MaxSumRows : ui_delete_expense(i)
SumGet == get_dashboard

NextSum ==
    \/ SumAdd
    \/ SumDelete
    \/ SumGet

SpecSum == InitSum /\ [][NextSum]_vars

----------------------------------------------------------------------------
(* Concurrent requests.  Each request runs in the session get_db opens for *)
(* it, and its handler is a sequence of statements sent to the database:   *)
(*   add_expense:        db.commit() flushes the INSERT, then COMMITs;     *)
(*   ui_delete_expense:  the SELECT of .first(); when it returned a row,   *)
(*                       db.commit() flushes the DELETE, then COMMITs.     *)
(*   read_item:          the SELECT of get_dashboard, then the SELECT of   *)
(*                       get_history, with no transaction around the two.  *)
(* A statement sees the committed table (read committed).  sqlite lets one *)
(* session write at a time: the first INSERT or DELETE of a transaction    *)
(* takes the write lock, and another writer waits for the COMMIT that      *)
(* frees it, but no longer than the busy timeout of the connection (the    *)
(* engine is created without one, so sqlite3's default of 5 seconds): then *)
(* its statement raises OperationalError "database is locked", which no    *)
(* handler catches.  postgresql makes a DELETE wait for the COMMIT of a    *)
(* session that has deleted the same row.                                  *)

Procs == 1..NProcs

ConcInput == [amount |-> FloatOf(1, 10), description |-> "food"]
ConcIds == 1..(MaxRows + 1)

(* the table after k requests add_expense(ConcInput) *)
Ledger(k) == { Expense(i, ConcInput.amount, ConcInput.description, Today) : i \in 1..k }

(* status of ui_delete_expense once the DELETE matched rowcount rows: the  *)
(* session only warns when the row it expected to delete is gone           *)
FlushDeleteStatus(rowcount) == RedirectStatus

Waits(p, be) ==
    IF be = "sqlite"
    THEN lock # 0
    ELSE \E q \in Procs \ {p} :
            /\ procs[q].pc = "commit"
            /\ procs[q].op = "ui_delete_expense"
            /\ procs[q].rowcount = 1
            /\ procs[q].expense_id = procs[p].expense_id
            /\ procs[p].op = "ui_delete_expense"

Take(p, be) == IF be = "sqlite" THEN p ELSE lock

Observed == UNCHANGED <<backend, today, last, prev, rows0>>

(* a request arrives: the lowest idle session handles it *)
Arrives(p) ==
    /\ procs[p].pc = "idle"
    /\ \A q \in Procs : q < p => procs[q].pc # "idle"

ArriveAdd(p, expense) ==
    /\ Arrives(p)
    /\ procs' = [procs EXCEPT ![p] = [NoProc EXCEPT !.pc = "flush",
                                                   !.op = "add_expense",
                                                   !.amount = expense.amount,
                                                   !.description = expense.description]]
    /\ UNCHANGED <<rows, seq, lock>>
    /\ Observed

ArriveDelete(p, expense_id) ==
    /\ Arrives(p)
    /\ procs' = [procs EXCEPT ![p] = [NoProc EXCEPT !.pc = "select",
                                                   !.op = "ui_delete_expense",
                                                   !.expense_id = expense_id]]
    /\ UNCHANGED <<rows, seq, lock>>
    /\ Observed

ArriveIndex(p) ==
    /\ Arrives(p)
    /\ procs' = [procs EXCEPT ![p] = [NoProc EXCEPT !.pc = "status",
                                                   !.op = "read_item"]]
    /\ UNCHANGED <<rows, seq, lock>>
    /\ Observed

(* the blocked INSERT or DELETE of a sqlite session gives up: the request  *)
(* is answered 500 Internal Server Error and has written nothing           *)
OperationalError(p) ==
    /\ backend = "sqlite"
    /\ procs[p].pc = "flush"
    /\ Waits(p, backend)
    /\ procs' = [procs EXCEPT ![p].pc = "done", ![p].status = 500]
    /\ UNCHANGED <<rows, seq, lock>>
    /\ Observed

(* INSERT INTO expenses (amount, description, created_at) VALUES (...) *)
FlushInsert(p) ==
    /\ procs[p].pc = "flush"
    /\ procs[p].op = "add_expense"
    /\ ~Waits(p, backend)
    /\ procs' = [procs EXCEPT ![p].pc = "commit",
                              ![p].new_id = NextId(backend, rows, seq)]
    /\ seq' = NextSeq(backend, seq)
    /\ lock' = Take(p, backend)
    /\ UNCHANGED rows
    /\ Observed

(* COMMIT of the INSERT; return {"status": "ok", "saved": expense} *)
CommitInsert(p) ==
    /\ procs[p].pc = "commit"
    /\ procs[p].op = "add_expense"
    /\ rows' = rows \cup { Expense(procs[p].new_id, procs[p].amount,
                                   procs[p].description, today) }
    /\ procs' = [procs EXCEPT ![p].pc = "done", ![p].status = 200]
    /\ lock' = 0
    /\ UNCHANGED seq
    /\ Observed

(* expense = db.query(Expense).filter(Expense.id == expense_id).first() *)
Select(p) ==
    /\ procs[p].pc = "select"
    /\ procs' = IF First(rows, procs[p].expense_id) # {}
                THEN [procs EXCEPT ![p].pc = "flush", ![p].found = TRUE]
                ELSE [procs EXCEPT ![p].pc = "done", ![p].status = RedirectStatus]
    /\ UNCHANGED <<rows, seq, lock>>
    /\ Observed

(* DELETE FROM expenses WHERE expenses.id = ? *)
FlushDelete(p) ==
    /\ procs[p].pc = "flush"
    /\ procs[p].op = "ui_delete_expense"
    /\ ~Waits(p, backend)
    /\ procs' = [procs EXCEPT ![p].pc = "commit",
                              ![p].rowcount = Cardinality(First(rows, procs[p].expense_id))]
    /\ lock' = Take(p, backend)
    /\ UNCHANGED <<rows, seq>>
    /\ Observed

(* COMMIT of the DELETE; return RedirectResponse(url="/", status_code=303) *)
CommitDelete(p) ==
    /\ procs[p].pc = "commit"
    /\ procs[p].op = "ui_delete_expense"
    /\ rows' = IF procs[p].rowcount = 1 THEN Delete(rows, procs[p].expense_id) ELSE rows
    /\ procs' = [procs EXCEPT ![p].pc = "done",
                              ![p].status = FlushDeleteStatus(procs[p].rowcount)]
    /\ lock' = 0
    /\ UNCHANGED seq
    /\ Observed

(* status = get_dashboard(db): SELECT ... FROM expenses, and the figures *)
IndexStatus(p) ==
    /\ procs[p].pc = "status"
    /\ \E spent \in Totals(rows) :
         procs' = LET e == Locals(spent, today)
                  IN  IF ZeroDivisionError(e.daily_limit)
                      THEN [procs EXCEPT ![p].pc = "done", ![p].status = 500]
                      ELSE [procs EXCEPT ![p].pc = "history",
                                         ![p].snapshot = <<Returned(e, today)>>]
    /\ UNCHANGED <<rows, seq, lock>>
    /\ Observed

(* history_data = get_history(limit=10, db=db): SELECT ... ORDER BY        *)
(* expenses.id DESC LIMIT 10; return templates.TemplateResponse(...)       *)
IndexHistory(p) ==
    /\ procs[p].pc = "history"
    /\ procs' = [procs EXCEPT ![p].pc = "done",
                              ![p].status = 200,
                              ![p].history = History(backend, rows, IndexLimit)]
    /\ UNCHANGED <<rows, seq, lock>>
    /\ Observed

InitConc ==
    /\ backend \in Backends
    /\ \E k \in 0..MaxRows : rows = Ledger(k) /\ seq = k
    /\ rows0 = rows
    /\ today = Today
    /\ last = NoCall
    /\ prev = Brief(NoCall)
    /\ procs = [p \in Procs |-> NoProc]
    /\ lock = 0

ConcAdd == \E p \in Procs : ArriveAdd(p, ConcInput)
ConcDelete == \E p \in Procs, i \in ConcIds : ArriveDelete(p, i)
ConcIndex == \E p \in Procs : ArriveIndex(p)
ConcLocked == \E p \in Procs : OperationalError(p)
ConcIndexStatus == \E p \in Procs : IndexStatus(p)
ConcIndexHistory == \E p \in Procs : IndexHistory(p)
ConcFlushInsert == \E p \in Procs : FlushInsert(p)
ConcCommitInsert == \E p \in Procs : CommitInsert(p)
ConcSelect == \E p \in Procs : Select(p)
ConcFlushDelete == \E p \in Procs : FlushDelete(p)
ConcCommitDelete == \E p \in Procs : CommitDelete(p)

NextConc ==
    \/ ConcAdd
    \/ ConcDelete
    \/ ConcIndex
    \/ ConcLocked
    \/ ConcIndexStatus
    \/ ConcIndexHistory
    \/ ConcFlushInsert
    \/ ConcCommitInsert
    \/ ConcSelect
    \/ ConcFlushDelete
    \/ ConcCommitDelete

SpecConc == InitConc /\ [][NextConc]_vars

(* Concurrent deletes only *)
NextDel ==
    \/ ConcDelete
    \/ ConcLocked
    \/ ConcSelect
    \/ ConcFlushDelete
    \/ ConcCommitDelete

SpecDel == InitConc /\ [][NextDel]_vars

----------------------------------------------------------------------------
(* Vocabulary of the properties *)

Adds == {"add_expense", "ui_add_expense"}
Snapshots == {"get_dashboard", "read_item"}

(* a description that is empty once trimmed *)
Blank(description) == description \in {"", " "}

(* the sum of the amounts of a table as a real number, not rounded *)
RECURSIVE ExactSum(_)
ExactSum(rs) ==
    IF rs = {} THEN Zero
    ELSE LET i == MaxOf(Ids(rs))
         IN  Plus(RowOf(rs, i).amount, ExactSum({ r \in rs : r.id # i }))

(* the sum of the magnitudes of the amounts of a table *)
RECURSIVE SumOfMagnitudes(_)
SumOfMagnitudes(rs) ==
    IF rs = {} THEN {}
    ELSE LET i == MaxOf(Ids(rs))
         IN  Add(RowOf(rs, i).amount.bits, SumOfMagnitudes({ r \in rs : r.id # i }))

(* the float sum of the amounts taken from the highest id down *)
RECURSIVE SumDescending(_, _)
SumDescending(acc, rs) ==
    IF rs = {} THEN acc
    ELSE LET r == RowOf(rs, MaxOf(Ids(rs)))
         IN  SumDescending(FloatAdd(acc, r.amount), rs \ {r})

Minus(x, y) == Plus(x, Neg(y))

(* the integer n as a number *)
Integer(n) == Number(n < 0, IntBits(IF n < 0 THEN -n ELSE n, 0))

(* k times the magnitude A, for a natural number k *)
RECURSIVE TimesBits(_, _)
TimesBits(A, k) ==
    IF k = 0 THEN {}
    ELSE Add(IF k % 2 = 1 THEN A ELSE {}, Shift(TimesBits(A, k \div 2), 1))

Times(x, k) == Number(x.neg, TimesBits(x.bits, k))

(* |x - y| <= B *)
Within(x, y, B) == ~Less(B, Minus(x, y).bits)

(* x is a double: it was not raised and has at most Mantissa significant bits *)
IsDouble(x) ==
    /\ x.raised = ""
    /\ x.bits # {} => LET top == Top(x.bits) IN \A k \in x.bits : k > top - Mantissa

(* half a unit in the last place of the double x *)
HalfUlp(x) == IF x.bits = {} THEN {} ELSE {Top(x.bits) - Mantissa}

(* the double nearest the number x *)
Nearest(x) == Number(x.neg, Round53(x.bits))

(* h is an integer nearest 100 * x *)
NearestHundredth(h, x) == Within(Integer(h), Times(x, 100), {-1})

(* s lists, from the highest id down, the Len(s) rows of rs of highest id *)
TopRows(s, rs) ==
    \A k \in 1..Len(s) :
        /\ s[k] \in rs
        /\ Cardinality({ r \in rs : r.id > s[k].id }) = k - 1

----------------------------------------------------------------------------
(* C1: an add with a negative amount or a blank description is answered    *)
(* with a validation error and leaves the table as it was.                 *)
C1_InvalidAddRejected ==
    (last.op \in Adds /\ (last.amount.neg \/ Blank(last.description)))
        => (last.status >= 400 /\ rows = last.before)

(* C2: the id given to a new row is no id held by a row of the table at    *)
(* either of the two preceding requests (so not the id of the row the      *)
(* preceding request deleted), and no two rows of the table share an id.   *)
C2_IdNeverReused ==
    /\ last.op \in Adds =>
          /\ last.new_id \notin Ids(last.before)
          /\ last.new_id \notin Ids(prev.before)
    /\ \A r1, r2 \in rows : r1.id = r2.id => r1 = r2

(* C3: get_dashboard never fails.  With days_left > 0 its daily_limit is   *)
(* the float quotient remaining_budget / days_left: the double nearest the *)
(* exact quotient, so that daily_limit times days_left is remaining_budget *)
(* up to the rounding of one float division (exactly so when the quotient  *)
(* is a double).  With days_left <= 0 its daily_limit is remaining_budget  *)
(* exactly.  It divides by a positive number only.                         *)
C3_DailyLimit ==
    last.op \in Snapshots =>
        /\ last.status = 200
        /\ LET e == last.engine[1]
               d == e.days_left
               dl == e.daily_limit
               rb == e.remaining_budget
           IN  /\ d = END_DATE - today
               /\ IsDouble(dl)
               /\ d > 0  => Within(Times(dl, d), rb, TimesBits(HalfUlp(dl), d))
               /\ d <= 0 => dl = rb

C3_Witness ==
    /\ last.op = "get_dashboard"
    /\ last.status = 200
    /\ last.engine[1].days_left = MaxDashDays
    /\ Times(last.engine[1].daily_limit, MaxDashDays) # last.engine[1].remaining_budget
    /\ last.snapshot[1].daily_limit_rsd * MaxDashDays
           # last.snapshot[1].remaining_total_rsd
    /\ rows # {}

C3_WitnessDeadline ==
    /\ last.op = "get_dashboard"
    /\ last.status = 200
    /\ last.engine[1].days_left = 0
    /\ rows # {}

(* C4, as stated: the total_spent get_dashboard returns is the exact sum   *)
(* of the amounts of the table (the double that holds it), whatever the    *)
(* order the rows were added and deleted in, and the remaining_total_rsd   *)
(* it returns is TOTAL_START_BUDGET minus that sum.                        *)
C4_ReturnedTotalExact ==
    (last.op \in Snapshots /\ last.status = 200) =>
        /\ FloatOf(last.snapshot[1].total_spent, 100) = Nearest(ExactSum(rows))
        /\ FloatOf(last.snapshot[1].remaining_total_rsd, 100)
              = Nearest(Minus(StartBudget, ExactSum(rows)))

(* C4, amended: get_dashboard computes total_spent as the float sum() of   *)
(* the amounts of the table, taken in the order of the ids, on either      *)
(* interpreter: it is 0 for the empty table, the amount itself for a table *)
(* of one row, and otherwise the exact sum up to floating rounding, within *)
(* 2^-52 of the sum of the magnitudes for each row after the first.        *)
(* remaining_budget is the float difference TOTAL_START_BUDGET -           *)
(* total_spent, negative or not, within half a unit in its last place of   *)
(* the exact difference.  The total_spent and remaining_total_rsd returned *)
(* are these two floats rounded to a nearest hundredth.                    *)
C4_TotalRounded ==
    (last.op \in Snapshots /\ last.status = 200) =>
        LET e == last.engine[1]
            snap == last.snapshot[1]
        IN  /\ IsDouble(e.total_spent) /\ IsDouble(e.remaining_budget)
            /\ rows = {} => e.total_spent = Zero
            /\ rows # {} =>
                  Within(e.total_spent, ExactSum(rows),
                         TimesBits(Shift(SumOfMagnitudes(rows), 1 - Mantissa),
                                   Cardinality(rows) - 1))
            /\ Within(e.remaining_budget,
                      Minus(StartBudget, e.total_spent),
                      HalfUlp(e.remaining_budget))
            /\ NearestHundredth(snap.total_spent, e.total_spent)
            /\ NearestHundredth(snap.remaining_total_rsd, e.remaining_budget)

(* three rows left by adds and a delete, over the budget, whose sum on the *)
(* interpreter that adds from the left is not their exact sum and comes    *)
(* out another float, and another number of hundredths, when the rows are  *)
(* taken in the opposite order                                             *)
C4_Witness ==
    /\ last.op = "get_dashboard"
    /\ last.engine[1].total_spent = total_spent("3.11", rows)
    /\ Cardinality(rows) = MaxSumRows
    /\ 1 \notin Ids(rows)
    /\ last.engine[1].total_spent # ExactSum(rows)
    /\ last.engine[1].total_spent # SumDescending(Zero, rows)
    /\ last.snapshot[1].total_spent # Round2(SumDescending(Zero, rows))
    /\ last.snapshot[1].remaining_total_rsd < 0

(* the same on the interpreter whose sum() compensates: the sum is not the *)
(* exact sum either, but the double nearest it, which adding from the left *)
(* misses, by a hundredth in the figure returned                           *)
C4_WitnessCompensated ==
    /\ last.op = "get_dashboard"
    /\ last.engine[1].total_spent = total_spent("3.12", rows)
    /\ Cardinality(rows) = MaxSumRows
    /\ 1 \notin Ids(rows)
    /\ last.engine[1].total_spent # ExactSum(rows)
    /\ last.engine[1].total_spent = Nearest(ExactSum(rows))
    /\ last.engine[1].total_spent # SumAmounts(Zero, rows)
    /\ last.snapshot[1].total_spent # Round2(SumAmounts(Zero, rows))
    /\ last.snapshot[1].remaining_total_rsd < 0

(* two calls in a row of ui_delete_expense with the id of a row the first found *)
DeletedTwice ==
    /\ prev.op = "ui_delete_expense"
    /\ prev.found
    /\ last.op = "ui_delete_expense"
    /\ last.expense_id = prev.expense_id

(* C5, as stated: of two deletes in a row of the same live id the first    *)
(* reports true and the second false, so the two responses differ.         *)
C5_ReportsTrueThenFalse ==
    DeletedTwice => <<last.status, last.location>> # <<prev.status, prev.location>>

(* what holds of two deletes in a row of the same live id: the first       *)
(* removes the row and the second removes nothing and raises no error;     *)
(* both are answered with the same redirect (303 to "/"), which reports no *)
(* boolean; the table after the second is the table after the first; a     *)
(* delete of an id that is not in the table changes nothing.               *)
C5_DeleteIdempotent ==
    /\ DeletedTwice =>
          /\ ~last.found
          /\ last.status = 303 /\ last.location = "/"
          /\ prev.status = 303 /\ prev.location = "/"
          /\ last.before = { r \in prev.before : r.id # prev.expense_id }
          /\ rows = last.before
    /\ (last.op = "ui_delete_expense" /\ last.expense_id \notin Ids(last.before)) =>
          /\ rows = last.before
          /\ last.status = 303

C5_Witness ==
    /\ DeletedTwice
    /\ rows # {}
    /\ Cardinality(prev.before) = Cardinality(rows) + 1

(* C6: get_history with a positive limit n returns at most n rows, by id   *)
(* strictly descending, and they are the first rows of the list of all     *)
(* rows of the table by id descending.                                     *)
C6_HistoryPrefix ==
    (last.op = "get_history" /\ last.limit_given /\ last.limit > 0) =>
        /\ last.status = 200
        /\ last.count = Len(last.history)
        /\ last.count <= last.limit
        /\ \A k \in 1..(Len(last.history) - 1) : last.history[k].id > last.history[k + 1].id
        /\ TopRows(last.history, rows)
        /\ last.count < last.limit => last.count = Cardinality(rows)

C6_Witness ==
    /\ last.op = "get_history" /\ last.limit_given /\ last.limit > 0
    /\ last.count = last.limit
    /\ Cardinality(rows) > last.limit
    /\ last.history[1].id > 1

(* C7, as stated: with the limit omitted, zero or negative, get_history    *)
(* returns all the rows of the table.                                      *)
C7_NoLimitMeansAll ==
    (last.op = "get_history" /\ (~last.limit_given \/ last.limit <= 0)) =>
        /\ last.status = 200
        /\ last.count = Cardinality(rows)

(* C7, amended: with the limit omitted get_history returns the             *)
(* DefaultLimit rows of highest id, or all rows when the table holds no    *)
(* more; with limit zero it returns no row; with a negative limit it       *)
(* returns all rows on sqlite and fails on postgresql.  The index page     *)
(* lists the IndexLimit rows of highest id, or all when there are no more. *)
C7_DefaultLimit ==
    /\ (last.op = "get_history" /\ ~last.limit_given) =>
          /\ last.status = 200
          /\ last.count = Len(last.history)
          /\ last.count = IF Cardinality(rows) > 10 THEN 10 ELSE Cardinality(rows)
          /\ TopRows(last.history, rows)
    /\ (last.op = "get_history" /\ last.limit_given /\ last.limit = 0) =>
          /\ last.status = 200
          /\ last.count = 0 /\ last.history = <<>>
    /\ (last.op = "get_history" /\ last.limit_given /\ last.limit < 0) =>
          /\ backend = "sqlite" =>
                /\ last.status = 200
                /\ last.count = Cardinality(rows) /\ last.count = Len(last.history)
                /\ TopRows(last.history, rows)
          /\ backend = "postgresql" => last.status = 500
    /\ (last.op = "read_item" /\ last.status = 200) =>
          /\ Len(last.history) = IF Cardinality(rows) > 10 THEN 10 ELSE Cardinality(rows)
          /\ TopRows(last.history, rows)

C7_Witness ==
    /\ last.op = "get_history" /\ ~last.limit_given
    /\ Cardinality(rows) > 10
    /\ last.count = 10
    /\ prev.op = "get_history" /\ prev.status = 200

(* C8: a delete of the row that the request before it added returns        *)
(* total_spent and the list of all rows by id descending to what they were *)
(* before the add.                                                         *)
C8_AddThenDelete ==
    (prev.op \in Adds /\ last.op = "ui_delete_expense" /\ last.expense_id = prev.new_id) =>
        /\ last.found
        /\ \A version \in Interpreters :
              total_spent(version, rows) = total_spent(version, prev.before)
        /\ OrderByIdDesc(rows) = OrderByIdDesc(prev.before)
        /\ rows = prev.before

C8_Witness ==
    /\ prev.op \in Adds /\ last.op = "ui_delete_expense" /\ last.expense_id = prev.new_id
    /\ rows # {}
    /\ last.found

----------------------------------------------------------------------------
(* Properties of concurrent requests *)

Finished == { p \in Procs : procs[p].pc = "done" }

(* the finished requests that were not answered with an error *)
Succeeded == { p \in Finished : procs[p].status < 500 }
Quiet == \A p \in Procs : procs[p].pc \in {"idle", "done"}

(* the orders in which the requests that succeeded can be handled one at a *)
(* time                                                                    *)
Orders == { o \in [1..Cardinality(Succeeded) -> Succeeded] :
               \A i, j \in 1..Cardinality(Succeeded) : o[i] = o[j] => i = j }

(* the table after the requests o[k], o[k+1], ... handled one at a time *)
RECURSIVE SerialRows(_, _, _, _)
SerialRows(o, k, rs, sq) ==
    IF k > Cardinality(Succeeded) THEN rs
    ELSE LET r == procs[o[k]]
         IN  IF r.op = "add_expense"
             THEN SerialRows(o, k + 1,
                             Insert(backend, rs, sq, r.amount, r.description, today),
                             NextSeq(backend, sq))
             ELSE IF r.op = "ui_delete_expense"
             THEN SerialRows(o, k + 1, Delete(rs, r.expense_id), sq)
             ELSE SerialRows(o, k + 1, rs, sq)

(* C9, first part: the table is the table that handling the requests that  *)
(* succeeded one at a time, in some order, gives.                          *)
C9_SomeSerialOrder ==
    Quiet => \E o \in Orders : rows = SerialRows(o, 1, rows0, Cardinality(rows0))

(* C9, second part: no two successful adds are given the same id.          *)
C9_DistinctIds ==
    \A p, q \in Succeeded :
        (p # q /\ procs[p].op = "add_expense" /\ procs[q].op = "add_expense")
            => procs[p].new_id # procs[q].new_id

(* C9, third part: every successful add puts exactly one row in the table  *)
(* and no committed write is lost: the row of an add stays until a delete  *)
(* of its id removes it, and a row a delete has removed does not come      *)
(* back; an add that failed wrote nothing.                                 *)
C9_NothingLost ==
    /\ \A p \in Finished \ Succeeded : procs[p].new_id = 0 /\ procs[p].rowcount = 0
    /\ \A p \in Succeeded : procs[p].op = "add_expense" =>
          /\ procs[p].status = 200
          /\ \/ Cardinality(First(rows, procs[p].new_id)) = 1
             \/ \E q \in Procs : /\ procs[q].op = "ui_delete_expense"
                                 /\ procs[q].expense_id = procs[p].new_id
                                 /\ procs[q].rowcount = 1
    /\ \A r1, r2 \in rows : r1.id = r2.id => r1 = r2
    /\ Quiet => \A r \in rows0 \ rows :
                   \E q \in Finished : /\ procs[q].op = "ui_delete_expense"
                                       /\ procs[q].expense_id = r.id
                                       /\ procs[q].rowcount = 1

(* C9: under every interleaving of concurrent adds and deletes the table   *)
(* is that of some serial order, every successful add contributes exactly  *)
(* one row, no two adds are given the same id, and no committed write is   *)
(* lost.                                                                   *)
C9_Serialized == C9_SomeSerialOrder /\ C9_DistinctIds /\ C9_NothingLost

(* two finished deletes of the same id that both found the row, with no    *)
(* request for another id in flight or finished                            *)
TwoDeletes(p, q) ==
    /\ p # q
    /\ p \in Finished /\ q \in Finished
    /\ procs[p].op = "ui_delete_expense" /\ procs[q].op = "ui_delete_expense"
    /\ procs[p].expense_id = procs[q].expense_id
    /\ procs[p].found /\ procs[q].found
    /\ \A o \in Procs : procs[o].pc # "idle" =>
          /\ procs[o].op = "ui_delete_expense"
          /\ procs[o].expense_id = procs[p].expense_id

(* C10: two concurrent deletes of the same live id both end without an     *)
(* error, at most one of them removes the row, the row is gone afterwards  *)
(* and every other row is as it was.                                       *)
C10_ConcurrentDeletes ==
    \A p, q \in Procs : TwoDeletes(p, q) =>
        /\ procs[p].status = 303 /\ procs[q].status = 303
        /\ procs[p].rowcount + procs[q].rowcount <= 1
        /\ First(rows, procs[p].expense_id) = {}
        /\ rows = { r \in rows0 : r.id # procs[p].expense_id }

(* what holds of two such deletes: neither is answered with an error for   *)
(* the row being gone; one is answered 500 only on sqlite, when its DELETE *)
(* gave up waiting for the write lock, and then it removed nothing; at     *)
(* most one removes the row; once no request is in flight the row is gone  *)
(* and every other row is as it was.                                       *)
C10_UnlessLocked ==
    \A p, q \in Procs : TwoDeletes(p, q) =>
        /\ \A o \in {p, q} :
              \/ procs[o].status = 303
              \/ procs[o].status = 500 /\ backend = "sqlite" /\ procs[o].rowcount = 0
        /\ procs[p].rowcount + procs[q].rowcount <= 1
        /\ Quiet => /\ First(rows, procs[p].expense_id) = {}
                    /\ rows = { r \in rows0 : r.id # procs[p].expense_id }

C10_Locked ==
    \E p, q \in Procs :
        /\ TwoDeletes(p, q)
        /\ procs[p].status = 500 /\ procs[q].status = 303
        /\ procs[q].rowcount = 1
        /\ Quiet
        /\ rows # {}

(* a page of read_item whose figures and history list are of two tables *)
TornPage ==
    \E p \in Finished :
        /\ procs[p].op = "read_item"
        /\ procs[p].status = 200
        /\ procs[p].snapshot[1].total_spent = 0
        /\ Len(procs[p].history) = 1

====
